---- MODULE Spec2Model ----
(***************************************************************************)
(* LEARNIT backend: the note, assignment and course route handlers over    *)
(* the document store.  Every handler is one action (the whole request);   *)
(* the race specifications split a handler at its awaits: the load         *)
(* (findById and the checks made on the loaded document) and, later, the   *)
(* save, which Mongoose sends as a delta ($push of the pushed element,     *)
(* $set of the assigned scalar) applied to the stored document.            *)
(***************************************************************************)
EXTENDS Integers, Sequences, FiniteSets, TLC

\* ------------------------------------------------------------------ bounds
MaxAcl == 2
MaxViews == 2
MaxSubs == 3
MaxRoster == 3

\* --------------------------------------------------------------- constants
\* maxStudents: maxStudents || 100
DefaultMaxStudents == 100

\* ------------------------------------------------------------------ callers
\* req.user as the auth middleware supplies it: a reference and a role.
Users == {"adm", "u1", "u2"}
Students == {"u1", "u2"}
Role(u) == IF u = "adm" THEN "admin" ELSE "student"

NoteIds == {"n1"}
AssignmentIds == {"a1"}
CourseIds == {"c1"}
NoCourse == "none"

VARIABLES notes, assignments, courses, inflight, resp
vars == <<notes, assignments, courses, inflight, resp>>

\* The JSON response of a request: status code, message, payload.
Resp(op, c, id, arg, status, msg, body) ==
  [op |-> op, caller |-> c, id |-> id, arg |-> arg, status |-> status,
   msg |-> msg, body |-> body]

\* The status categories of the error taxonomy.
Category(status) ==
  CASE status \in {200, 201} -> "Success"
    [] status = 400 -> "Validation"
    [] status = 403 -> "Forbidden"
    [] status = 404 -> "NotFound"
    [] OTHER -> "Internal"

\* adminAuth: routes behind it are refused to a caller whose role is not admin.
AdminAuthPasses(c) == Role(c) = "admin"

\* ------------------------------------------------------------------ strings
\* Strings are sequences of characters; String.prototype.toLowerCase and the
\* 'i' option of $regex fold the letters.
LowerChar(ch) ==
  CASE ch = "A" -> "a"
    [] ch = "B" -> "b"
    [] ch = "C" -> "c"
    [] ch = "D" -> "d"
    [] ch = "F" -> "f"
    [] ch = "P" -> "p"
    [] ch = "X" -> "x"
    [] ch = "Z" -> "z"
    [] OTHER -> ch

ToLowerCase(s) == [i \in 1..Len(s) |-> LowerChar(s[i])]

\* { $regex: pat, $options: 'i' } with a literal pattern: pat occurs in s,
\* letter case ignored.
RegexI(pat, s) ==
  \E k \in 0..(Len(s) - Len(pat)) :
    \A j \in 1..Len(pat) : LowerChar(s[k + j]) = LowerChar(pat[j])

\* -------------------------------------------------------------------- notes
\* Note documents: notes is the collection, a function from the ids of the
\* stored notes; findById(id) finds a note iff id \in DOMAIN notes.
Titles == {<<"A", "b">>, <<"c">>}
Contents == {<<"b", "C">>, <<"d">>}
Searches == {<<"a", "B">>, <<"c">>, <<"z">>}
NoSearch == <<>>

AccessTypes == {"view", "edit"}
\* The users that requests put on access lists; the other student is the
\* caller with no grant.
GrantedUsers == {"u1"}
AccessEntries == [user : GrantedUsers, accessType : AccessTypes]
AccessLists == UNION {[1..n -> AccessEntries] : n \in 0..MaxAcl}

\* A field of req.body, or the value used when the body leaves it out.
Field(body, k, default) == IF k \in DOMAIN body THEN body[k] ELSE default

\* The read check with the access-list clause asking for an 'edit' grant.
ReadAccessDeniedEditOnly(c, note) ==
  /\ Role(c) # "admin"
  /\ ~note.isPublic
  /\ ~(\E i \in 1..Len(note.accessList) :
         note.accessList[i].user = c /\ note.accessList[i].accessType = "edit")
  /\ ~(note.author = c)

\* if (req.user.role !== 'admin' && !note.isPublic &&
\*     !note.accessList.some(access => access.user._id.equals(req.user._id)) &&
\*     !note.author._id.equals(req.user._id))  -> 403
ReadAccessDenied(c, note) ==
  /\ Role(c) # "admin"
  /\ ~note.isPublic
  /\ ~(\E i \in 1..Len(note.accessList) : note.accessList[i].user = c)
  /\ ~(note.author = c)

\* note.viewCount += 1
ViewCountNotSaved(note) == note

IncrementViewCount(note) == [note EXCEPT !.viewCount = @ + 1]

\* Read-one raising the counter before it looks at the caller's access.
GetNoteCountsBeforeCheck(c, id) ==
  /\ UNCHANGED <<assignments, courses, inflight>>
  /\ IF id \notin DOMAIN notes
       THEN /\ resp' = Resp("getNote", c, id, <<>>, 404, "Note not found", <<>>)
            /\ UNCHANGED notes
       ELSE /\ notes[id].viewCount < MaxViews
            /\ notes' = [notes EXCEPT ![id] = IncrementViewCount(@)]
            /\ IF ReadAccessDenied(c, notes[id])
                 THEN resp' = Resp("getNote", c, id, <<>>, 403, "Access denied", <<>>)
                 ELSE resp' = Resp("getNote", c, id, <<>>, 200, "", notes'[id])

\* GET /notes/:id
GetNote(c, id) ==
  /\ UNCHANGED <<assignments, courses, inflight>>
  /\ IF id \notin DOMAIN notes
       THEN /\ resp' = Resp("getNote", c, id, <<>>, 404, "Note not found", <<>>)
            /\ UNCHANGED notes
       ELSE IF ReadAccessDenied(c, notes[id])
         THEN /\ resp' = Resp("getNote", c, id, <<>>, 403, "Access denied", <<>>)
              /\ UNCHANGED notes
         ELSE /\ notes[id].viewCount < MaxViews
              /\ notes' = [notes EXCEPT ![id] = IncrementViewCount(@)]
              /\ resp' = Resp("getNote", c, id, <<>>, 200, "", notes'[id])

\* A save that adds one to the stored counter whatever the copy holds.
SaveViewCountAtomic(stored, doc) == [stored EXCEPT !.viewCount = @ + 1]

\* await note.save() after note.viewCount += 1: the save writes the changed
\* path of the request's copy, viewCount, over the stored value.
SaveViewCount(stored, doc) == [stored EXCEPT !.viewCount = doc.viewCount]

\* GET /notes/:id up to its await note.save(): the request holds its copy of
\* the note with the counter already raised.
GetNoteLoad(r, c, id) ==
  /\ r \notin DOMAIN inflight
  /\ UNCHANGED <<notes, assignments, courses>>
  /\ IF id \notin DOMAIN notes
       THEN /\ resp' = Resp("getNote", c, id, <<>>, 404, "Note not found", <<>>)
            /\ UNCHANGED inflight
       ELSE IF ReadAccessDenied(c, notes[id])
         THEN /\ resp' = Resp("getNote", c, id, <<>>, 403, "Access denied", <<>>)
              /\ UNCHANGED inflight
         ELSE /\ notes[id].viewCount < MaxViews
              /\ inflight' = inflight @@
                   (r :> [op |-> "getNote", pc |-> "save", caller |-> c, id |-> id,
                          note |-> IncrementViewCount(notes[id])])
              /\ UNCHANGED resp

\* await note.save() of a read-one request.  A save of a note that is no
\* longer stored fails.
GetNoteSave(r) ==
  /\ r \in DOMAIN inflight
  /\ inflight[r].op = "getNote" /\ inflight[r].pc = "save"
  /\ UNCHANGED <<assignments, courses>>
  /\ LET q == inflight[r]
     IN  IF q.id \in DOMAIN notes
           THEN /\ notes' = [notes EXCEPT ![q.id] = SaveViewCount(@, q.note)]
                /\ inflight' = [inflight EXCEPT ![r].pc = "respond"]
                /\ UNCHANGED resp
           ELSE /\ UNCHANGED notes
                /\ inflight' = [x \in DOMAIN inflight \ {r} |-> inflight[x]]
                /\ resp' = Resp("getNote", q.caller, q.id, <<>>, 500, "Server error", <<>>)

\* res.json(note): the request answers with its copy.
GetNoteRespond(r) ==
  /\ r \in DOMAIN inflight
  /\ inflight[r].op = "getNote" /\ inflight[r].pc = "respond"
  /\ UNCHANGED <<notes, assignments, courses>>
  /\ inflight' = [x \in DOMAIN inflight \ {r} |-> inflight[x]]
  /\ resp' = Resp("getNote", inflight[r].caller, inflight[r].id, <<>>, 200, "",
                  inflight[r].note)

\* The filter document Note.find is given.  $or is one key of it: an
\* assignment to query.$or replaces the clauses an earlier one put there.
SearchClauses(search) ==
  << [kind |-> "title", pat |-> search], [kind |-> "content", pat |-> search] >>

\* The access filter without its author clause.
AccessClausesNoAuthor(c) ==
  << [kind |-> "isPublic"], [kind |-> "accessList.user", user |-> c] >>

\* query.$or = [{ isPublic: true }, { 'accessList.user': id }, { author: id }]
AccessClauses(c) ==
  << [kind |-> "isPublic"], [kind |-> "accessList.user", user |-> c],
     [kind |-> "author", user |-> c] >>

ListQuery(c, search) ==
  LET q0 == [or |-> <<>>]
      q1 == IF search # NoSearch THEN [q0 EXCEPT !.or = SearchClauses(search)] ELSE q0
      q2 == IF Role(c) # "admin" THEN [q1 EXCEPT !.or = AccessClauses(c)] ELSE q1
  IN  q2

MatchClause(cl, note) ==
  CASE cl.kind = "title" -> RegexI(cl.pat, note.title)
    [] cl.kind = "content" -> RegexI(cl.pat, note.content)
    [] cl.kind = "isPublic" -> note.isPublic = TRUE
    [] cl.kind = "accessList.user" ->
         \E i \in 1..Len(note.accessList) : note.accessList[i].user = cl.user
    [] cl.kind = "author" -> note.author = cl.user

\* A filter with no $or matches every note.
MatchQuery(q, note) ==
  Len(q.or) = 0 \/ \E i \in 1..Len(q.or) : MatchClause(q.or[i], note)

\* GET /notes?search=...
ListNotes(c, search) ==
  /\ UNCHANGED <<notes, assignments, courses, inflight>>
  /\ resp' = Resp("listNotes", c, "", search, 200, "",
                  {n \in DOMAIN notes : MatchQuery(ListQuery(c, search), notes[n])})

\* req.body of POST /notes: title and content, and optionally one more field.
CreateNoteBodies ==
  LET base == [title : Titles, content : Contents]
  IN  base
      \cup {[title |-> b.title, content |-> b.content, isPublic |-> p] :
              b \in base, p \in BOOLEAN}
      \cup {[title |-> b.title, content |-> b.content, accessList |-> al] :
              b \in base, al \in AccessLists}
      \cup {[title |-> b.title, content |-> b.content, course |-> k] :
              b \in base, k \in CourseIds}

\* What the Note schema gives a new document for the fields the handler does
\* not set.
NoteDefaults == [viewCount |-> 0, comments |-> <<>>]

\* Visibility that ignores what the request says.
NoteVisibilityAlwaysPublic(body) == TRUE

\* isPublic: isPublic !== undefined ? isPublic : true
NoteVisibility(body) == IF "isPublic" \in DOMAIN body THEN body.isPublic ELSE TRUE

\* POST /notes (adminAuth)
CreateNote(c, id, body) ==
  /\ id \notin DOMAIN notes
  /\ UNCHANGED <<assignments, courses, inflight>>
  /\ IF ~AdminAuthPasses(c)
       THEN /\ resp' = Resp("createNote", c, "", <<>>, 403, "Access denied", <<>>)
            /\ UNCHANGED notes
       ELSE IF "course" \in DOMAIN body /\ body.course \notin DOMAIN courses
         THEN /\ resp' = Resp("createNote", c, "", body, 404, "Course not found", <<>>)
              /\ UNCHANGED notes
         ELSE LET note == [title |-> body.title,
                           content |-> body.content,
                           course |-> Field(body, "course", NoCourse),
                           author |-> c,
                           tags |-> Field(body, "tags", <<>>),
                           isPublic |-> NoteVisibility(body),
                           accessList |-> Field(body, "accessList", <<>>),
                           viewCount |-> NoteDefaults.viewCount,
                           comments |-> NoteDefaults.comments]
              IN  /\ notes' = notes @@ (id :> note)
                  /\ resp' = Resp("createNote", c, id, body, 201, "", note)

\* hasAccess with the access-list lookup ignoring the access type.
UpdateHasAccessAnyType(c, note) ==
  IF Role(c) = "admin" THEN TRUE
  ELSE IF note.author = c THEN TRUE
  ELSE IF Len(note.accessList) > 0
    THEN \E i \in 1..Len(note.accessList) : note.accessList[i].user = c
    ELSE FALSE

\* hasAccess of PUT /notes/:id
UpdateHasAccess(c, note) ==
  IF Role(c) = "admin" THEN TRUE
  ELSE IF note.author = c THEN TRUE
  ELSE IF Len(note.accessList) > 0
    THEN \E i \in 1..Len(note.accessList) :
           note.accessList[i].user = c /\ note.accessList[i].accessType = "edit"
    ELSE FALSE

\* req.body of PUT /notes/:id: findByIdAndUpdate sets the fields it names.
UpdateNoteBodies ==
  {[title |-> t] : t \in Titles}
  \cup {[content |-> t] : t \in Contents}
  \cup {[author |-> u] : u \in Users}
  \cup {[isPublic |-> p] : p \in BOOLEAN}
  \cup {[accessList |-> al] : al \in AccessLists}

ApplyNoteBody(note, body) ==
  [title |-> Field(body, "title", note.title),
   content |-> Field(body, "content", note.content),
   course |-> note.course,
   author |-> Field(body, "author", note.author),
   isPublic |-> Field(body, "isPublic", note.isPublic),
   tags |-> note.tags,
   accessList |-> Field(body, "accessList", note.accessList),
   viewCount |-> note.viewCount,
   comments |-> note.comments]

\* PUT /notes/:id
UpdateNote(c, id, body) ==
  /\ UNCHANGED <<assignments, courses, inflight>>
  /\ IF id \notin DOMAIN notes
       THEN /\ resp' = Resp("updateNote", c, id, body, 404, "Note not found", <<>>)
            /\ UNCHANGED notes
       ELSE IF ~UpdateHasAccess(c, notes[id])
         THEN /\ resp' = Resp("updateNote", c, id, body, 403, "Access denied", <<>>)
              /\ UNCHANGED notes
         ELSE /\ notes' = [notes EXCEPT ![id] = ApplyNoteBody(@, body)]
              /\ resp' = Resp("updateNote", c, id, body, 200, "", notes'[id])

\* The delete check letting a holder of an 'edit' grant through as well.
DeleteDeniedUnlessEdit(c, note) ==
  /\ Role(c) # "admin"
  /\ ~(note.author = c)
  /\ ~(\E i \in 1..Len(note.accessList) :
         note.accessList[i].user = c /\ note.accessList[i].accessType = "edit")

\* if (req.user.role !== 'admin' && !note.author.equals(req.user._id)) -> 403
DeleteDenied(c, note) ==
  /\ Role(c) # "admin"
  /\ ~(note.author = c)

\* DELETE /notes/:id
DeleteNote(c, id) ==
  /\ UNCHANGED <<assignments, courses, inflight>>
  /\ IF id \notin DOMAIN notes
       THEN /\ resp' = Resp("deleteNote", c, id, <<>>, 404, "Note not found", <<>>)
            /\ UNCHANGED notes
       ELSE IF DeleteDenied(c, notes[id])
         THEN /\ resp' = Resp("deleteNote", c, id, <<>>, 403, "Access denied", <<>>)
              /\ UNCHANGED notes
         ELSE /\ notes' = [n \in DOMAIN notes \ {id} |-> notes[n]]
              /\ resp' = Resp("deleteNote", c, id, <<>>, 200,
                              "Note deleted successfully", <<>>)

\* ------------------------------------------------------------------ comments
\* A comment is a subdocument of its note: [_id, user, content, updatedAt].
\* Every subdocument gets an _id no other comment of the note carries.
CommentIds == {1, 2}
CommentTexts == {"k1", "k2"}
Times == {"t1"}
NoTime == "never"

\* note.comments.id(commentId): the position of the comment, 0 when absent.
CommentIndex(comments, cid) ==
  IF \E i \in 1..Len(comments) : comments[i]._id = cid
    THEN CHOOSE i \in 1..Len(comments) : comments[i]._id = cid
    ELSE 0

\* The comment check of a note that is not public to commenters.
CommentAccessDeniedIgnoringPublic(c, note) ==
  /\ Role(c) # "admin"
  /\ ~(\E i \in 1..Len(note.accessList) : note.accessList[i].user = c)
  /\ ~(note.author = c)

\* if (req.user.role !== 'admin' && !note.isPublic &&
\*     !note.accessList.some(access => access.user.equals(req.user._id)) &&
\*     !note.author.equals(req.user._id))  -> 403
CommentAccessDenied(c, note) ==
  /\ Role(c) # "admin"
  /\ ~note.isPublic
  /\ ~(\E i \in 1..Len(note.accessList) : note.accessList[i].user = c)
  /\ ~(note.author = c)

\* note.comments.push({ user: req.user._id, content })
NewComment(cid, c, content) ==
  [_id |-> cid, user |-> c, content |-> content, updatedAt |-> NoTime]

\* populatedNote.comments[populatedNote.comments.length - 1]; an empty
\* array yields undefined, which res.json sends as an empty body.
LastComment(comments) ==
  IF Len(comments) = 0 THEN <<>> ELSE comments[Len(comments)]

\* POST /notes/:id/comments
AddComment(c, id, cid, content) ==
  /\ UNCHANGED <<assignments, courses, inflight>>
  /\ IF id \notin DOMAIN notes
       THEN /\ resp' = Resp("addComment", c, id, content, 404, "Note not found", <<>>)
            /\ UNCHANGED notes
       ELSE IF CommentAccessDenied(c, notes[id])
         THEN /\ resp' = Resp("addComment", c, id, content, 403, "Access denied", <<>>)
              /\ UNCHANGED notes
         ELSE /\ CommentIndex(notes[id].comments, cid) = 0
              /\ notes' = [notes EXCEPT ![id].comments =
                             Append(@, NewComment(cid, c, content))]
              /\ resp' = Resp("addComment", c, id, content, 200, "",
                              LastComment(notes'[id].comments))

\* POST /notes/:id/comments up to its await note.save(): the request holds
\* the comment it pushed onto its own copy of the note.
AddCommentLoad(r, c, id, cid, content) ==
  /\ r \notin DOMAIN inflight
  /\ UNCHANGED <<notes, assignments, courses>>
  /\ IF id \notin DOMAIN notes
       THEN /\ resp' = Resp("addComment", c, id, content, 404, "Note not found", <<>>)
            /\ UNCHANGED inflight
       ELSE IF CommentAccessDenied(c, notes[id])
         THEN /\ resp' = Resp("addComment", c, id, content, 403, "Access denied", <<>>)
              /\ UNCHANGED inflight
         ELSE /\ CommentIndex(notes[id].comments, cid) = 0
              /\ \A x \in DOMAIN inflight : inflight[x].push._id # cid
              /\ inflight' = inflight @@
                   (r :> [op |-> "addComment", pc |-> "save", caller |-> c, id |-> id,
                          arg |-> content, push |-> NewComment(cid, c, content)])
              /\ UNCHANGED resp

\* await note.save(): the pushed comment is added at the end of the stored
\* array, whatever other requests did to it since the load.  A save of a
\* note that is no longer stored fails.
AddCommentSave(r) ==
  /\ r \in DOMAIN inflight
  /\ inflight[r].op = "addComment" /\ inflight[r].pc = "save"
  /\ UNCHANGED <<assignments, courses>>
  /\ LET q == inflight[r]
     IN  IF q.id \in DOMAIN notes
           THEN /\ notes' = [notes EXCEPT ![q.id].comments = Append(@, q.push)]
                /\ inflight' = [inflight EXCEPT ![r].pc = "reread"]
                /\ UNCHANGED resp
           ELSE /\ UNCHANGED notes
                /\ inflight' = [x \in DOMAIN inflight \ {r} |-> inflight[x]]
                /\ resp' = Resp("addComment", q.caller, q.id, q.arg, 500,
                                "Server error", <<>>)

\* const populatedNote = await Note.findById(note._id)...;
\* res.json(populatedNote.comments[populatedNote.comments.length - 1])
AddCommentReread(r) ==
  /\ r \in DOMAIN inflight
  /\ inflight[r].op = "addComment" /\ inflight[r].pc = "reread"
  /\ UNCHANGED <<notes, assignments, courses>>
  /\ inflight' = [x \in DOMAIN inflight \ {r} |-> inflight[x]]
  /\ LET q == inflight[r]
     IN  IF q.id \in DOMAIN notes
           THEN resp' = Resp("addComment", q.caller, q.id, q.arg, 200, "",
                             LastComment(notes[q.id].comments))
           ELSE resp' = Resp("addComment", q.caller, q.id, q.arg, 500,
                             "Server error", <<>>)

\* The moderation check without the comparison with the comment's author.
ModerateDeniedNever(c, comment) == FALSE

\* if (req.user.role !== 'admin' && !comment.user.equals(req.user._id)) -> 403
ModerateDenied(c, comment) ==
  /\ Role(c) # "admin"
  /\ ~(comment.user = c)

\* PUT /notes/:id/comments/:commentId
UpdateComment(c, id, cid, content, now) ==
  /\ UNCHANGED <<assignments, courses, inflight>>
  /\ LET arg == [commentId |-> cid, content |-> content]
     IN  IF id \notin DOMAIN notes
           THEN /\ resp' = Resp("updateComment", c, id, arg, 404, "Note not found", <<>>)
                /\ UNCHANGED notes
           ELSE LET i == CommentIndex(notes[id].comments, cid)
                IN  IF i = 0
                      THEN /\ resp' = Resp("updateComment", c, id, arg, 404,
                                           "Comment not found", <<>>)
                           /\ UNCHANGED notes
                      ELSE IF ModerateDenied(c, notes[id].comments[i])
                        THEN /\ resp' = Resp("updateComment", c, id, arg, 403,
                                             "Access denied", <<>>)
                             /\ UNCHANGED notes
                        ELSE /\ notes' = [notes EXCEPT ![id].comments[i] =
                                            [@ EXCEPT !.content = content,
                                                      !.updatedAt = now]]
                             /\ resp' = Resp("updateComment", c, id, arg, 200, "",
                                             notes'[id].comments[i])

\* comment.remove()
RemoveAt(comments, i) ==
  [j \in 1..(Len(comments) - 1) |-> IF j < i THEN comments[j] ELSE comments[j + 1]]

\* DELETE /notes/:id/comments/:commentId
DeleteComment(c, id, cid) ==
  /\ UNCHANGED <<assignments, courses, inflight>>
  /\ IF id \notin DOMAIN notes
       THEN /\ resp' = Resp("deleteComment", c, id, cid, 404, "Note not found", <<>>)
            /\ UNCHANGED notes
       ELSE LET i == CommentIndex(notes[id].comments, cid)
            IN  IF i = 0
                  THEN /\ resp' = Resp("deleteComment", c, id, cid, 404,
                                       "Comment not found", <<>>)
                       /\ UNCHANGED notes
                  ELSE IF ModerateDenied(c, notes[id].comments[i])
                    THEN /\ resp' = Resp("deleteComment", c, id, cid, 403,
                                         "Access denied", <<>>)
                         /\ UNCHANGED notes
                    ELSE /\ notes' = [notes EXCEPT ![id].comments = RemoveAt(@, i)]
                         /\ resp' = Resp("deleteComment", c, id, cid, 200,
                                         "Comment deleted successfully", <<>>)

\* -------------------------------------------------------------- assignments
\* Assignment documents.  Title, description, due date and maximum file size
\* are stored and returned and decide nothing; they are left out.
FileTypes == {"file", "url", "any"}
ExtPdf == <<".", "p", "d", "f">>
ExtPdfUpper == <<".", "P", "D", "F">>
AllowedExtensionLists == {<<>>, <<ExtPdf>>, <<ExtPdfUpper>>}

\* req.file.originalname of the upload, or no upload.
Files ==
  { <<"a", ".", "p", "d", "f">>, <<"a", ".", "P", "D", "F">>,
    <<"a", ".", "d", "o", "c", "x">> }
NoFile == <<>>
Urls == { <<"h", "t", "t", "p">> }
NoUrl == <<>>
Grades == {"g1"}
Feedbacks == {"f1"}
NoGrade == "ungraded"

\* path.extname: from the last '.' of the name to its end; empty when the
\* name has no '.' or only a leading one.
ExtName(name) ==
  LET dots == {i \in 1..Len(name) : name[i] = "."}
  IN  IF dots = {} THEN <<>>
      ELSE LET last == CHOOSE i \in dots : \A j \in dots : j <= i
           IN  IF last = 1 THEN <<>> ELSE SubSeq(name, last, Len(name))

\* Array.prototype.includes on an array of strings.
Includes(arr, x) == \E i \in 1..Len(arr) : arr[i] = x

\* const fileExtension = path.extname(req.file.originalname).toLowerCase();
\* allowedExtensions.length > 0 && !allowedExtensions.includes(fileExtension)
ExtensionRejected(a, file) ==
  /\ Len(a.allowedExtensions) > 0
  /\ ~Includes(a.allowedExtensions, ToLowerCase(ExtName(file)))

Outcome(status, msg) == [status |-> status, msg |-> msg]

\* The checks of submit with the upload examined before the search for an
\* earlier submission of the caller.
SubmitOutcomeArtifactFirst(c, id, file, url, store) ==
  IF Role(c) = "admin" THEN Outcome(403, "Admins cannot submit assignments")
  ELSE IF id \notin DOMAIN store THEN Outcome(404, "Assignment not found")
  ELSE IF ~store[id].isActive THEN Outcome(403, "Assignment is not active")
  ELSE IF store[id].fileType # "any" /\ store[id].fileType # "url" /\ file = NoFile
    THEN Outcome(400, "File is required for this assignment")
  ELSE IF /\ store[id].fileType # "any" /\ store[id].fileType # "url"
          /\ ExtensionRejected(store[id], file)
    THEN Outcome(400, "File type not allowed. Allowed types:")
  ELSE IF \E i \in 1..Len(store[id].submissions) :
            store[id].submissions[i].student = c
    THEN Outcome(400, "You have already submitted this assignment")
  ELSE IF store[id].fileType = "url" /\ url = NoUrl
    THEN Outcome(400, "URL is required for this assignment")
  ELSE Outcome(201, "")

\* The checks of POST /assignments/:id/submit, in the order the handler makes
\* them, on the assignment collection as findById reads it.
SubmitOutcome(c, id, file, url, store) ==
  IF Role(c) = "admin" THEN Outcome(403, "Admins cannot submit assignments")
  ELSE IF id \notin DOMAIN store THEN Outcome(404, "Assignment not found")
  ELSE IF ~store[id].isActive THEN Outcome(403, "Assignment is not active")
  ELSE IF \E i \in 1..Len(store[id].submissions) :
            store[id].submissions[i].student = c
    THEN Outcome(400, "You have already submitted this assignment")
  ELSE IF store[id].fileType # "any" /\ store[id].fileType # "url" /\ file = NoFile
    THEN Outcome(400, "File is required for this assignment")
  ELSE IF /\ store[id].fileType # "any" /\ store[id].fileType # "url"
          /\ ExtensionRejected(store[id], file)
    THEN Outcome(400, "File type not allowed. Allowed types:")
  ELSE IF store[id].fileType = "url" /\ url = NoUrl
    THEN Outcome(400, "URL is required for this assignment")
  ELSE Outcome(201, "")

\* const submission = { student, submittedAt, fileUrl, fileName, fileType, comments }
NewSubmission(c, file, url, now) ==
  [student |-> c,
   submittedAt |-> now,
   fileUrl |-> IF file # NoFile
                 THEN <<"/uploads/assignments/", "file">> \o ExtName(file)
                 ELSE url,
   fileName |-> IF file # NoFile THEN file ELSE url,
   fileType |-> IF file # NoFile THEN ExtName(file) ELSE <<"url">>,
   comments |-> "",
   grade |-> NoGrade,
   feedback |-> NoGrade]

\* assignment.submissions.push(submission); await assignment.save(): the save
\* sends the $push of the new element, which gets its _id.
PushSubmission(a, sub) ==
  [a EXCEPT !.submissions =
     Append(@, [_id |-> Len(@) + 1, student |-> sub.student,
                submittedAt |-> sub.submittedAt,
                fileUrl |-> sub.fileUrl, fileName |-> sub.fileName,
                fileType |-> sub.fileType, comments |-> sub.comments,
                grade |-> sub.grade, feedback |-> sub.feedback])]

\* The allowed set a 'File type not allowed' message lists.
SubmitBody(o, id, sub, store) ==
  IF o.status = 201 THEN sub
  ELSE IF o.msg = "File type not allowed. Allowed types:"
    THEN store[id].allowedExtensions
    ELSE <<>>

\* POST /assignments/:id/submit, one request at a time
Submit(c, id, file, url) ==
  \E now \in Times :
  LET o == SubmitOutcome(c, id, file, url, assignments)
      sub == NewSubmission(c, file, url, now)
  IN  /\ UNCHANGED <<notes, courses, inflight>>
      /\ resp' = Resp("submit", c, id, [file |-> file, url |-> url], o.status, o.msg,
                      SubmitBody(o, id, sub, assignments))
      /\ IF o.status = 201
           THEN /\ Len(assignments[id].submissions) < MaxSubs
                /\ assignments' = [assignments EXCEPT ![id] = PushSubmission(@, sub)]
           ELSE UNCHANGED assignments

\* POST /assignments/:id/submit up to its await assignment.save(): the
\* request holds the submission it is about to push.
SubmitLoad(r, c, id, file, url) ==
  \E now \in Times :
  LET o == SubmitOutcome(c, id, file, url, assignments)
      sub == NewSubmission(c, file, url, now)
  IN  /\ r \notin DOMAIN inflight
      /\ UNCHANGED <<notes, courses, assignments>>
      /\ IF o.status = 201
           THEN /\ inflight' = inflight @@
                     (r :> [op |-> "submit", caller |-> c, id |-> id,
                            arg |-> [file |-> file, url |-> url], push |-> sub])
                /\ UNCHANGED resp
           ELSE /\ resp' = Resp("submit", c, id, [file |-> file, url |-> url],
                                o.status, o.msg, SubmitBody(o, id, sub, assignments))
                /\ UNCHANGED inflight

\* await assignment.save() of a submit request, and its response.  A save of
\* a document that is no longer stored fails.
SubmitSave(r) ==
  /\ r \in DOMAIN inflight
  /\ inflight[r].op = "submit"
  /\ UNCHANGED <<notes, courses>>
  /\ inflight' = [x \in DOMAIN inflight \ {r} |-> inflight[x]]
  /\ LET q == inflight[r]
     IN  IF q.id \in DOMAIN assignments
           THEN /\ Len(assignments[q.id].submissions) < MaxSubs
                /\ assignments' = [assignments EXCEPT ![q.id] = PushSubmission(@, q.push)]
                /\ resp' = Resp("submit", q.caller, q.id, q.arg, 201, "", q.push)
           ELSE /\ UNCHANGED assignments
                /\ resp' = Resp("submit", q.caller, q.id, q.arg, 500, "Server error", <<>>)

\* A filter document that names no field.
NoFilter == [k \in {} |-> TRUE]

\* The list filter that leaves the active flag out for every caller.
AssignmentQueryUnfiltered(c) == NoFilter

\* let query = {}; if (req.user.role !== 'admin') query.isActive = true
AssignmentQuery(c) ==
  IF Role(c) # "admin" THEN [isActive |-> TRUE] ELSE NoFilter

\* Assignment.find(query): the stored assignments whose fields equal the
\* filter's.  The order of the answer (newest first) is left out.
FindAssignments(q, store) ==
  {x \in DOMAIN store : \A k \in DOMAIN q : store[x][k] = q[k]}

\* GET /assignments
ListAssignments(c) ==
  /\ UNCHANGED <<notes, assignments, courses, inflight>>
  /\ resp' = Resp("listAssignments", c, "", <<>>, 200, "",
                  FindAssignments(AssignmentQuery(c), assignments))

\* if (req.user.role !== 'admin' && !assignment.isActive) -> 403
AssignmentUnavailable(c, a) == Role(c) # "admin" /\ ~a.isActive

\* GET /assignments/:id
GetAssignment(c, id) ==
  /\ UNCHANGED <<notes, assignments, courses, inflight>>
  /\ IF id \notin DOMAIN assignments
       THEN resp' = Resp("getAssignment", c, id, <<>>, 404, "Assignment not found", <<>>)
       ELSE IF AssignmentUnavailable(c, assignments[id])
         THEN resp' = Resp("getAssignment", c, id, <<>>, 403,
                           "Assignment not available", <<>>)
         ELSE resp' = Resp("getAssignment", c, id, <<>>, 200, "", assignments[id])

\* req.body of POST /assignments and PUT /assignments/:id
CreateAssignmentBodies ==
  [fileType : FileTypes, allowedExtensions : AllowedExtensionLists]
  \cup [fileType : FileTypes]

UpdateAssignmentBodies ==
  [fileType : FileTypes, allowedExtensions : AllowedExtensionLists, isActive : BOOLEAN]

\* POST /assignments (adminAuth); a new assignment is active and has no
\* submissions.
CreateAssignment(c, id, body) ==
  /\ id \notin DOMAIN assignments
  /\ UNCHANGED <<notes, courses, inflight>>
  /\ IF ~AdminAuthPasses(c)
       THEN /\ resp' = Resp("createAssignment", c, "", <<>>, 403, "Access denied", <<>>)
            /\ UNCHANGED assignments
       ELSE LET a == [fileType |-> body.fileType,
                      allowedExtensions |-> Field(body, "allowedExtensions", <<>>),
                      isActive |-> TRUE,
                      createdBy |-> c,
                      submissions |-> <<>>]
            IN  /\ assignments' = assignments @@ (id :> a)
                /\ resp' = Resp("createAssignment", c, id, body, 201, "", a)

\* PUT /assignments/:id (adminAuth): findByIdAndUpdate sets the listed fields.
UpdateAssignment(c, id, body) ==
  /\ UNCHANGED <<notes, courses, inflight>>
  /\ IF ~AdminAuthPasses(c)
       THEN /\ resp' = Resp("updateAssignment", c, id, <<>>, 403, "Access denied", <<>>)
            /\ UNCHANGED assignments
       ELSE IF id \notin DOMAIN assignments
         THEN /\ resp' = Resp("updateAssignment", c, id, body, 404,
                              "Assignment not found", <<>>)
              /\ UNCHANGED assignments
         ELSE /\ assignments' =
                   [assignments EXCEPT ![id].fileType = body.fileType,
                                       ![id].allowedExtensions = body.allowedExtensions,
                                       ![id].isActive = body.isActive]
              /\ resp' = Resp("updateAssignment", c, id, body, 200, "", assignments'[id])

\* DELETE /assignments/:id (adminAuth)
DeleteAssignment(c, id) ==
  /\ UNCHANGED <<notes, courses, inflight>>
  /\ IF ~AdminAuthPasses(c)
       THEN /\ resp' = Resp("deleteAssignment", c, id, <<>>, 403, "Access denied", <<>>)
            /\ UNCHANGED assignments
       ELSE IF id \notin DOMAIN assignments
         THEN /\ resp' = Resp("deleteAssignment", c, id, <<>>, 404,
                              "Assignment not found", <<>>)
              /\ UNCHANGED assignments
         ELSE /\ assignments' = [x \in DOMAIN assignments \ {id} |-> assignments[x]]
              /\ resp' = Resp("deleteAssignment", c, id, <<>>, 200,
                              "Assignment deleted successfully", <<>>)

\* assignment.submissions.id(submissionId): the position of the submission
\* with that _id, 0 when there is none.
SubmissionIndex(a, sid) ==
  IF \E i \in 1..Len(a.submissions) : a.submissions[i]._id = sid
    THEN CHOOSE i \in 1..Len(a.submissions) :
           /\ a.submissions[i]._id = sid
           /\ \A j \in 1..(i - 1) : a.submissions[j]._id # sid
    ELSE 0

\* The grade handler without the role gate in front of it.
GradeGatePassesAnyone(c) == TRUE

\* adminAuth in front of the grade route.
GradeGatePasses(c) == AdminAuthPasses(c)

\* The grade write spilling the feedback into the student's comment.
ApplyGradeAndComment(sub, grade, feedback) ==
  [sub EXCEPT !.grade = grade, !.feedback = feedback, !.comments = feedback]

\* submission.grade = grade; submission.feedback = feedback
ApplyGrade(sub, grade, feedback) ==
  [sub EXCEPT !.grade = grade, !.feedback = feedback]

\* PUT /assignments/:id/submissions/:submissionId/grade (adminAuth)
GradeSubmission(c, id, sid, grade, feedback) ==
  /\ UNCHANGED <<notes, courses, inflight>>
  /\ LET arg == [submissionId |-> sid, grade |-> grade, feedback |-> feedback]
     IN  IF ~GradeGatePasses(c)
           THEN /\ resp' = Resp("grade", c, id, <<>>, 403, "Access denied", <<>>)
                /\ UNCHANGED assignments
           ELSE IF id \notin DOMAIN assignments
             THEN /\ resp' = Resp("grade", c, id, arg, 404, "Assignment not found", <<>>)
                  /\ UNCHANGED assignments
             ELSE IF SubmissionIndex(assignments[id], sid) = 0
               THEN /\ resp' = Resp("grade", c, id, arg, 404, "Submission not found", <<>>)
                    /\ UNCHANGED assignments
               ELSE LET i == SubmissionIndex(assignments[id], sid)
                    IN  /\ assignments' =
                             [assignments EXCEPT ![id].submissions[i] =
                                ApplyGrade(@, grade, feedback)]
                        /\ resp' = Resp("grade", c, id, arg, 200, "",
                                        assignments'[id].submissions[i])

\* ------------------------------------------------------------------ courses
\* Course documents.  Title, description, category, level and the dates are
\* stored and returned and decide nothing; they are left out.
CourseCodes == {"CS1"}
Capacities == {1, 2}

\* req.body of POST /courses
CreateCourseBodies ==
  [code : CourseCodes]
  \cup [code : CourseCodes, maxStudents : Capacities]
  \cup [code : CourseCodes, instructor : Students]

\* POST /courses (adminAuth)
CreateCourse(c, id, body) ==
  /\ id \notin DOMAIN courses
  /\ UNCHANGED <<notes, assignments, inflight>>
  /\ IF ~AdminAuthPasses(c)
       THEN /\ resp' = Resp("createCourse", c, "", <<>>, 403, "Access denied", <<>>)
            /\ UNCHANGED courses
       ELSE IF \E k \in DOMAIN courses : courses[k].code = body.code
         THEN /\ resp' = Resp("createCourse", c, "", body, 400,
                              "Course with this code already exists", <<>>)
              /\ UNCHANGED courses
         ELSE LET course == [code |-> body.code,
                             instructor |-> Field(body, "instructor", c),
                             maxStudents |-> Field(body, "maxStudents", DefaultMaxStudents),
                             isActive |-> TRUE,
                             students |-> <<>>]
              IN  /\ courses' = courses @@ (id :> course)
                  /\ resp' = Resp("createCourse", c, id, body, 201, "", course)

\* req.body of PUT /courses/:id: findByIdAndUpdate sets the fields it names.
UpdateCourseBodies ==
  {[maxStudents |-> m] : m \in Capacities}
  \cup {[isActive |-> b] : b \in BOOLEAN}

ApplyCourseBody(course, body) ==
  [code |-> course.code,
   instructor |-> course.instructor,
   maxStudents |-> Field(body, "maxStudents", course.maxStudents),
   isActive |-> Field(body, "isActive", course.isActive),
   students |-> course.students]

\* PUT /courses/:id
UpdateCourse(c, id, body) ==
  /\ UNCHANGED <<notes, assignments, inflight>>
  /\ IF id \notin DOMAIN courses
       THEN /\ resp' = Resp("updateCourse", c, id, body, 404, "Course not found", <<>>)
            /\ UNCHANGED courses
       ELSE IF Role(c) # "admin" /\ ~(courses[id].instructor = c)
         THEN /\ resp' = Resp("updateCourse", c, id, body, 403, "Access denied", <<>>)
              /\ UNCHANGED courses
         ELSE /\ courses' = [courses EXCEPT ![id] = ApplyCourseBody(@, body)]
              /\ resp' = Resp("updateCourse", c, id, body, 200, "", courses'[id])

\* DELETE /courses/:id (adminAuth)
DeleteCourse(c, id) ==
  /\ UNCHANGED <<notes, assignments, inflight>>
  /\ IF ~AdminAuthPasses(c)
       THEN /\ resp' = Resp("deleteCourse", c, id, <<>>, 403, "Access denied", <<>>)
            /\ UNCHANGED courses
       ELSE IF id \notin DOMAIN courses
         THEN /\ resp' = Resp("deleteCourse", c, id, <<>>, 404, "Course not found", <<>>)
              /\ UNCHANGED courses
         ELSE /\ courses' = [x \in DOMAIN courses \ {id} |-> courses[x]]
              /\ resp' = Resp("deleteCourse", c, id, <<>>, 200,
                              "Course deleted successfully", <<>>)

\* The checks of POST /courses/:id/enroll, in the order the handler makes
\* them, on the course collection as findById reads it.
EnrollOutcome(c, id, store) ==
  IF id \notin DOMAIN store THEN Outcome(404, "Course not found")
  ELSE IF ~store[id].isActive THEN Outcome(400, "Course is not active")
  ELSE IF Includes(store[id].students, c)
    THEN Outcome(400, "Already enrolled in this course")
  ELSE IF Len(store[id].students) >= store[id].maxStudents
    THEN Outcome(400, "Course is full")
  ELSE Outcome(200, "Enrolled successfully")

\* course.students.push(req.user._id); await course.save(): the save sends
\* the $push of the new element.
PushStudent(course, c) == [course EXCEPT !.students = Append(@, c)]

\* POST /courses/:id/enroll, one request at a time
Enroll(c, id) ==
  LET o == EnrollOutcome(c, id, courses)
  IN  /\ UNCHANGED <<notes, assignments, inflight>>
      /\ resp' = Resp("enroll", c, id, <<>>, o.status, o.msg, <<>>)
      /\ IF o.status = 200
           THEN /\ Len(courses[id].students) < MaxRoster
                /\ courses' = [courses EXCEPT ![id] = PushStudent(@, c)]
           ELSE UNCHANGED courses

\* POST /courses/:id/enroll up to its await course.save()
EnrollLoad(r, c, id) ==
  LET o == EnrollOutcome(c, id, courses)
  IN  /\ r \notin DOMAIN inflight
      /\ UNCHANGED <<notes, assignments, courses>>
      /\ IF o.status = 200
           THEN /\ inflight' = inflight @@
                     (r :> [op |-> "enroll", caller |-> c, id |-> id])
                /\ UNCHANGED resp
           ELSE /\ resp' = Resp("enroll", c, id, <<>>, o.status, o.msg, <<>>)
                /\ UNCHANGED inflight

\* await course.save() of an enroll request, and its response.  A save of a
\* document that is no longer stored fails.
EnrollSave(r) ==
  /\ r \in DOMAIN inflight
  /\ inflight[r].op = "enroll"
  /\ UNCHANGED <<notes, assignments>>
  /\ inflight' = [x \in DOMAIN inflight \ {r} |-> inflight[x]]
  /\ LET q == inflight[r]
     IN  IF q.id \in DOMAIN courses
           THEN /\ Len(courses[q.id].students) < MaxRoster
                /\ courses' = [courses EXCEPT ![q.id] = PushStudent(@, q.caller)]
                /\ resp' = Resp("enroll", q.caller, q.id, <<>>, 200,
                                "Enrolled successfully", <<>>)
           ELSE /\ UNCHANGED courses
                /\ resp' = Resp("enroll", q.caller, q.id, <<>>, 500, "Server error", <<>>)

\* ------------------------------------------------------------ specifications
NoDocs == [x \in {} |-> x]

Init ==
  /\ notes = NoDocs
  /\ assignments = NoDocs
  /\ courses = NoDocs
  /\ inflight = NoDocs
  /\ resp = Resp("none", "", "", <<>>, 0, "", <<>>)

NextNotes ==
  \/ \E c \in Users, id \in NoteIds : GetNote(c, id)
  \/ \E c \in Users, s \in Searches \cup {NoSearch} : ListNotes(c, s)
  \/ \E c \in Users, id \in NoteIds, b \in CreateNoteBodies : CreateNote(c, id, b)
  \/ \E c \in Users, id \in NoteIds, b \in UpdateNoteBodies : UpdateNote(c, id, b)
  \/ \E c \in Users, id \in NoteIds : DeleteNote(c, id)

SpecNotes == Init /\ [][NextNotes]_vars

\* Creating notes with and without a course: the one course comes and goes,
\* and the note is created with each optional field given or left out.
TagLists == {<<>>, <<"exam">>}
NoteCreateBodies ==
  LET With(base, k, v) == [x \in DOMAIN base \cup {k} |-> IF x = k THEN v ELSE base[x]]
  IN  UNION { {base}
              \cup {With(base, "course", k) : k \in CourseIds}
              \cup {With(base, "isPublic", p) : p \in BOOLEAN}
              \cup {With(base, "tags", t) : t \in TagLists}
              \cup {With(base, "accessList", al) :
                       al \in {<<>>, <<[user |-> "u1", accessType |-> "view"]>>}}
            : base \in [title : Titles, content : {<<"d">>}] }

NextNoteCreate ==
  \/ \E c \in Users, id \in CourseIds : CreateCourse(c, id, [code |-> "CS1"])
  \/ \E c \in Users, id \in CourseIds : DeleteCourse(c, id)
  \/ \E c \in Users, id \in NoteIds, b \in NoteCreateBodies : CreateNote(c, id, b)
  \/ \E c \in Users, id \in NoteIds : DeleteNote(c, id)

SpecNoteCreate == Init /\ [][NextNoteCreate]_vars

\* The comment threads of one note: the note is created once, its author,
\* visibility and access list are edited, and comments come and go.
CommentNoteBodies == {[title |-> <<"c">>, content |-> <<"d">>]}
CommentNoteUpdates ==
  {[author |-> u] : u \in Users}
  \cup {[isPublic |-> p] : p \in BOOLEAN}
  \cup {[accessList |-> al] : al \in {<<>>, <<[user |-> "u1", accessType |-> "view"]>>}}

NextComments ==
  \/ \E c \in Users, id \in NoteIds, b \in CommentNoteBodies : CreateNote(c, id, b)
  \/ \E c \in Users, id \in NoteIds, b \in CommentNoteUpdates : UpdateNote(c, id, b)
  \/ \E c \in Users, id \in NoteIds, cid \in CommentIds, k \in CommentTexts :
       AddComment(c, id, cid, k)
  \/ \E c \in Users, id \in NoteIds, cid \in CommentIds, k \in CommentTexts, t \in Times :
       UpdateComment(c, id, cid, k, t)
  \/ \E c \in Users, id \in NoteIds, cid \in CommentIds : DeleteComment(c, id, cid)

SpecComments == Init /\ [][NextComments]_vars

SubmissionIds == 1..MaxSubs

\* What a submit request carries: an upload, a URL, or neither.
Uploads ==
  [file : Files, url : {NoUrl}]
  \cup [file : {NoFile}, url : Urls \cup {NoUrl}]
  \cup [file : {<<"a", ".", "d", "o", "c", "x">>}, url : Urls]

NextAssign ==
  \/ \E c \in Users, id \in AssignmentIds, b \in CreateAssignmentBodies :
       CreateAssignment(c, id, b)
  \/ \E c \in Users, id \in AssignmentIds, b \in UpdateAssignmentBodies :
       UpdateAssignment(c, id, b)
  \/ \E c \in Users, id \in AssignmentIds : DeleteAssignment(c, id)
  \/ \E c \in Users, id \in AssignmentIds, up \in Uploads : Submit(c, id, up.file, up.url)
  \/ \E c \in Users, id \in AssignmentIds, sid \in SubmissionIds,
        g \in Grades, f \in Feedbacks :
       GradeSubmission(c, id, sid, g, f)

SpecAssign == Init /\ [][NextAssign]_vars

\* Submit requests whose load and save interleave: two requests in flight.
Requests == {"r1", "r2"}

NextAssignRace ==
  \/ \E c \in Users, id \in AssignmentIds : CreateAssignment(c, id, [fileType |-> "any"])
  \/ \E r \in Requests, c \in Users, id \in AssignmentIds, u \in Urls :
       SubmitLoad(r, c, id, NoFile, u)
  \/ \E r \in Requests : SubmitSave(r)

SpecAssignRace == Init /\ [][NextAssignRace]_vars

\* Read-one requests on a note whose load, save and answer interleave.
NextNotesRace ==
  \/ \E c \in Users, id \in NoteIds, b \in CommentNoteBodies : CreateNote(c, id, b)
  \/ \E r \in Requests, c \in Users, id \in NoteIds : GetNoteLoad(r, c, id)
  \/ \E r \in Requests : GetNoteSave(r)
  \/ \E r \in Requests : GetNoteRespond(r)

SpecNotesRace == Init /\ [][NextNotesRace]_vars

\* Reading assignments: two assignments are created, switched on and off and
\* deleted by the admin, and every caller lists and reads them.
ReadAssignmentIds == {"a1", "a2"}
ReadAssignmentUpdates ==
  {[fileType |-> "any", allowedExtensions |-> <<>>, isActive |-> b] : b \in BOOLEAN}

NextAssignRead ==
  \/ \E c \in Users, id \in ReadAssignmentIds : CreateAssignment(c, id, [fileType |-> "any"])
  \/ \E c \in Users, id \in ReadAssignmentIds, b \in ReadAssignmentUpdates :
       UpdateAssignment(c, id, b)
  \/ \E c \in Users, id \in ReadAssignmentIds : DeleteAssignment(c, id)
  \/ \E c \in Users : ListAssignments(c)
  \/ \E c \in Users, id \in ReadAssignmentIds : GetAssignment(c, id)

SpecAssignRead == Init /\ [][NextAssignRead]_vars

\* Add-comment requests whose load, save and re-read interleave with each
\* other and with comment deletions.
NextCommentsRace ==
  \/ \E c \in Users, id \in NoteIds, b \in CommentNoteBodies : CreateNote(c, id, b)
  \/ \E r \in Requests, c \in Users, id \in NoteIds, cid \in CommentIds,
        k \in CommentTexts : AddCommentLoad(r, c, id, cid, k)
  \/ \E r \in Requests : AddCommentSave(r)
  \/ \E r \in Requests : AddCommentReread(r)
  \/ \E c \in Users, id \in NoteIds, cid \in CommentIds : DeleteComment(c, id, cid)

SpecCommentsRace == Init /\ [][NextCommentsRace]_vars

NextCourse ==
  \/ \E c \in Users, id \in CourseIds, b \in CreateCourseBodies : CreateCourse(c, id, b)
  \/ \E c \in Users, id \in CourseIds, b \in UpdateCourseBodies : UpdateCourse(c, id, b)
  \/ \E c \in Users, id \in CourseIds : DeleteCourse(c, id)
  \/ \E c \in Users, id \in CourseIds : Enroll(c, id)

SpecCourse == Init /\ [][NextCourse]_vars

\* Enroll requests whose load and save interleave.
NextCourseRace ==
  \/ \E c \in Users, id \in CourseIds, b \in CreateCourseBodies : CreateCourse(c, id, b)
  \/ \E r \in Requests, c \in Users, id \in CourseIds : EnrollLoad(r, c, id)
  \/ \E r \in Requests : EnrollSave(r)

SpecCourseRace == Init /\ [][NextCourseRace]_vars

\* Every route side by side on a small store: one restricted note with one
\* comment slot, one assignment that wants a file, one course with one seat.
OutcomeNoteBody == [title |-> <<"c">>, content |-> <<"d">>, isPublic |-> FALSE]
OutcomeAssignmentBodies ==
  {[fileType |-> "file", allowedExtensions |-> <<>>, isActive |-> b] : b \in BOOLEAN}
OutcomeUploads == {[file |-> <<"a", ".", "p", "d", "f">>, url |-> NoUrl],
                   [file |-> NoFile, url |-> NoUrl]}
OutcomeCourseBody == [code |-> "CS1", maxStudents |-> 1]

NextOutcomes ==
  \/ \E c \in Users, id \in NoteIds : GetNote(c, id)
  \/ \E c \in Users : ListNotes(c, NoSearch)
  \/ \E c \in Users, id \in NoteIds : CreateNote(c, id, OutcomeNoteBody)
  \/ \E c \in Users, id \in NoteIds : UpdateNote(c, id, [content |-> <<"d">>])
  \/ \E c \in Users, id \in NoteIds : DeleteNote(c, id)
  \/ \E c \in Users, id \in NoteIds : AddComment(c, id, 1, "k1")
  \/ \E c \in Users, id \in NoteIds, t \in Times : UpdateComment(c, id, 1, "k2", t)
  \/ \E c \in Users, id \in NoteIds : DeleteComment(c, id, 1)
  \/ \E c \in Users : ListAssignments(c)
  \/ \E c \in Users, id \in AssignmentIds : GetAssignment(c, id)
  \/ \E c \in Users, id \in AssignmentIds : CreateAssignment(c, id, [fileType |-> "file"])
  \/ \E c \in Users, id \in AssignmentIds, b \in OutcomeAssignmentBodies :
       UpdateAssignment(c, id, b)
  \/ \E c \in Users, id \in AssignmentIds : DeleteAssignment(c, id)
  \/ \E c \in Users, id \in AssignmentIds, up \in OutcomeUploads :
       Submit(c, id, up.file, up.url)
  \/ \E c \in Users, id \in AssignmentIds, g \in Grades, f \in Feedbacks :
       GradeSubmission(c, id, 1, g, f)
  \/ \E c \in Users, id \in CourseIds : CreateCourse(c, id, OutcomeCourseBody)
  \/ \E c \in Users, id \in CourseIds, b \in {[isActive |-> x] : x \in BOOLEAN} :
       UpdateCourse(c, id, b)
  \/ \E c \in Users, id \in CourseIds : DeleteCourse(c, id)
  \/ \E c \in Users, id \in CourseIds : Enroll(c, id)

SpecOutcomes == Init /\ [][NextOutcomes]_vars

\* The three repositories share no document: each is checked on its own.
Next ==
  \/ NextNotes \/ NextNoteCreate \/ NextComments \/ NextAssign \/ NextAssignRead
  \/ NextCourse \/ NextOutcomes

Spec == Init /\ [][Next]_vars

\* ------------------------------------------------------------------- claims
\* The access predicates as the specification states them.
InAccessList(c, note) == \E i \in 1..Len(note.accessList) : note.accessList[i].user = c

HasEditGrant(c, note) ==
  \E i \in 1..Len(note.accessList) :
    note.accessList[i].user = c /\ note.accessList[i].accessType = "edit"

CanRead(c, note) ==
  Role(c) = "admin" \/ note.author = c \/ note.isPublic \/ InAccessList(c, note)

CanWriteEdit(c, note) == Role(c) = "admin" \/ note.author = c \/ HasEditGrant(c, note)

\* C1: read-one of an existing note N by caller c succeeds iff c is admin, or
\* N's author, or N is public, or c is on N's access list (any access type);
\* in every other case it fails with Forbidden (Access denied).
C1_ReadOneIffCanRead ==
  [][ (resp'.op = "getNote" /\ resp'.id \in DOMAIN notes) =>
        /\ (resp'.status = 200) <=> CanRead(resp'.caller, notes[resp'.id])
        /\ (resp'.status # 200) =>
             (Category(resp'.status) = "Forbidden" /\ resp'.msg = "Access denied")
    ]_vars

\* A student who is neither admin nor author read a restricted note through
\* a view grant.
C1_Witness ==
  /\ resp.op = "getNote" /\ resp.status = 200
  /\ Role(resp.caller) # "admin"
  /\ resp.body.author # resp.caller
  /\ ~resp.body.isPublic
  /\ \A i \in 1..Len(resp.body.accessList) : resp.body.accessList[i].accessType = "view"

\* C4: each successful read-one of note N increases N's view counter by
\* exactly 1, so a successful read that directly follows a successful read of
\* the same note leaves the counter 2 above the value before the first.
C4_ReadIncrementsViewCount ==
  [][ (resp'.op = "getNote" /\ resp'.status = 200) =>
        /\ notes'[resp'.id].viewCount = notes[resp'.id].viewCount + 1
        /\ resp'.body.viewCount = notes'[resp'.id].viewCount
        /\ (resp.op = "getNote" /\ resp.status = 200 /\ resp.id = resp'.id) =>
             notes'[resp'.id].viewCount = (resp.body.viewCount - 1) + 2
    ]_vars

\* Two successful reads in a row.
C4_Witness ==
  /\ resp.op = "getNote" /\ resp.status = 200
  /\ resp.id \in DOMAIN notes
  /\ notes[resp.id].viewCount = 2

\* C9: a note update is applied iff the caller is admin, or the author, or on
\* the access list with access type 'edit'; any other caller (a 'view' grant
\* only, or no grant, even on a public note) gets Forbidden and the note is
\* unchanged.
C9_UpdateIffCanWriteEdit ==
  [][ (resp'.op = "updateNote" /\ resp'.id \in DOMAIN notes) =>
        /\ (resp'.status = 200) <=> CanWriteEdit(resp'.caller, notes[resp'.id])
        /\ (resp'.status = 200) =>
             \A k \in DOMAIN resp'.arg : notes'[resp'.id][k] = resp'.arg[k]
        /\ (resp'.status # 200) =>
             (Category(resp'.status) = "Forbidden" /\ notes' = notes)
    ]_vars

\* A student with an 'edit' grant, not the author, changed the title.
C9_Witness ==
  /\ resp.op = "updateNote" /\ resp.status = 200
  /\ Role(resp.caller) # "admin"
  /\ "title" \in DOMAIN resp.arg
  /\ notes[resp.id].author # resp.caller
  /\ HasEditGrant(resp.caller, notes[resp.id])

\* C10: for every caller, a note list given a search text returns only notes
\* whose title or content matches the text case-insensitively, and only
\* notes the caller may read.
C10_ListHonoursSearch ==
  (resp.op = "listNotes" /\ resp.arg # NoSearch) =>
    \A n \in resp.body :
      /\ RegexI(resp.arg, notes[n].title) \/ RegexI(resp.arg, notes[n].content)
      /\ CanRead(resp.caller, notes[n])

\* The submissions of student c in assignment a.
SubmissionsOf(a, c) == {i \in 1..Len(a.submissions) : a.submissions[i].student = c}

\* C2: after a successful submit by student S on assignment A exactly one
\* submission of S exists in A, and a later submit attempt by S on A fails
\* with Duplicate-Submission and adds no submission.
C2_SubmitOncePerStudent ==
  /\ [](  (resp.op = "submit" /\ resp.status = 201 /\ resp.id \in DOMAIN assignments) =>
            Cardinality(SubmissionsOf(assignments[resp.id], resp.caller)) = 1 )
  /\ [][ \A id \in DOMAIN assignments, c \in Users :
           SubmissionsOf(assignments[id], c) # {} =>
             \* no request of c on A passes the checks again ...
             /\ \A r \in DOMAIN inflight' \ DOMAIN inflight :
                  ~(inflight'[r].op = "submit" /\ inflight'[r].caller = c
                    /\ inflight'[r].id = id)
             \* ... and an attempt answered from the checks is a duplicate
             /\ ( /\ resp'.op = "submit" /\ resp'.caller = c /\ resp'.id = id
                  /\ inflight' = inflight )
                => /\ Category(resp'.status) = "Validation"
                   /\ resp'.msg = "You have already submitted this assignment"
                   /\ assignments' = assignments
      ]_vars

\* C3: in every reachable state, whatever the interleaving of submit
\* requests, an assignment holds at most one submission per student.
C3_AtMostOneSubmissionPerStudent ==
  \A id \in DOMAIN assignments, c \in Users :
    Cardinality(SubmissionsOf(assignments[id], c)) <= 1

\* C7: a grade request by a non-admin fails with Forbidden; one by an admin
\* naming an absent assignment or submission fails with NotFound; in both
\* cases no grade or feedback changes.  Grade and feedback of a submission
\* are set only by an admin's grade request naming that submission, which
\* sets them to the values of the request.
C7_GradeIsAuthorityGated ==
  [][ /\ resp'.op = "grade" =>
           /\ Role(resp'.caller) # "admin" =>
                (Category(resp'.status) = "Forbidden" /\ assignments' = assignments)
           /\ ( /\ Role(resp'.caller) = "admin"
                /\ \/ resp'.id \notin DOMAIN assignments
                   \/ \A i \in 1..Len(assignments[resp'.id].submissions) :
                        assignments[resp'.id].submissions[i]._id # resp'.arg.submissionId )
                => (Category(resp'.status) = "NotFound" /\ assignments' = assignments)
           /\ ( /\ Role(resp'.caller) = "admin"
                /\ resp'.id \in DOMAIN assignments
                /\ \E i \in 1..Len(assignments[resp'.id].submissions) :
                     assignments[resp'.id].submissions[i]._id = resp'.arg.submissionId )
                => /\ resp'.status = 200
                   /\ DOMAIN assignments' = DOMAIN assignments
                   /\ Len(assignments'[resp'.id].submissions)
                        = Len(assignments[resp'.id].submissions)
                   /\ \A i \in 1..Len(assignments[resp'.id].submissions) :
                        LET old == assignments[resp'.id].submissions[i]
                            new == assignments'[resp'.id].submissions[i]
                        IN  IF old._id = resp'.arg.submissionId
                              THEN new = [old EXCEPT !.grade = resp'.arg.grade,
                                                     !.feedback = resp'.arg.feedback]
                              ELSE new = old
      /\ \A id \in DOMAIN assignments \cap DOMAIN assignments' :
           \A i \in 1..Len(assignments[id].submissions) :
             ( /\ i <= Len(assignments'[id].submissions)
               /\ \/ assignments'[id].submissions[i].grade
                       # assignments[id].submissions[i].grade
                  \/ assignments'[id].submissions[i].feedback
                       # assignments[id].submissions[i].feedback )
             => ( /\ resp'.op = "grade" /\ resp'.status = 200
                  /\ Role(resp'.caller) = "admin"
                  /\ resp'.id = id
                  /\ resp'.arg.submissionId = assignments[id].submissions[i]._id )
    ]_vars

\* An admin graded the second student's submission.
C7_Witness ==
  /\ resp.op = "grade" /\ resp.status = 200
  /\ resp.id \in DOMAIN assignments
  /\ Len(assignments[resp.id].submissions) = 2
  /\ resp.arg.submissionId = 2
  /\ assignments[resp.id].submissions[2].grade = "g1"
  /\ assignments[resp.id].submissions[1].grade = NoGrade

\* x is in the allowed set, letter case ignored.
MemberIgnoringCase(x, allowed) ==
  \E i \in 1..Len(allowed) : ToLowerCase(allowed[i]) = ToLowerCase(x)

\* C8: whatever the submission mode and the letter case of the extensions,
\* when the assignment has a non-empty allowed-extension set a submit with an
\* upload is accepted only if the upload's extension is in the set, case
\* ignored; a submit that passes every other check (role, active, duplicate,
\* URL given in mode 'url') with an extension outside the set fails with the
\* Validation error that lists the allowed set, and records nothing.
C8_AllowedExtensionsEnforced ==
  [][ ( /\ resp'.op = "submit"
        /\ resp'.id \in DOMAIN assignments
        /\ Len(assignments[resp'.id].allowedExtensions) > 0
        /\ resp'.arg.file # NoFile )
      => LET a == assignments[resp'.id]
             member == MemberIgnoringCase(ExtName(resp'.arg.file), a.allowedExtensions)
         IN  /\ resp'.status = 201 => member
             /\ ( /\ ~member
                  /\ Role(resp'.caller) # "admin"
                  /\ a.isActive
                  /\ SubmissionsOf(a, resp'.caller) = {}
                  /\ a.fileType = "url" => resp'.arg.url # NoUrl )
                => /\ Category(resp'.status) = "Validation"
                   /\ resp'.msg = "File type not allowed. Allowed types:"
                   /\ resp'.body = a.allowedExtensions
                   /\ assignments' = assignments
    ]_vars

\* C5: an enroll call by a student already on the course's roster fails with
\* Validation and leaves the roster unchanged, so no student is twice on a
\* roster that enroll calls built.
C5_EnrollRejectsRepeat ==
  /\ [][ \A id \in DOMAIN courses, c \in Users :
           Includes(courses[id].students, c) =>
             /\ \A r \in DOMAIN inflight' \ DOMAIN inflight :
                  ~(inflight'[r].op = "enroll" /\ inflight'[r].caller = c
                    /\ inflight'[r].id = id)
             /\ ( /\ resp'.op = "enroll" /\ resp'.caller = c /\ resp'.id = id
                  /\ inflight' = inflight )
                => (Category(resp'.status) = "Validation" /\ courses' = courses)
      ]_vars
  /\ [](\A id \in DOMAIN courses :
          \A i, j \in 1..Len(courses[id].students) :
            i # j => courses[id].students[i] # courses[id].students[j])

\* C6: in every reachable state the roster of each course is no larger than
\* the course's capacity.
C6_RosterWithinCapacity ==
  \A id \in DOMAIN courses : Len(courses[id].students) <= courses[id].maxStudents

\* C11: with no other filter, the note list returns to a non-admin caller
\* exactly the notes read-one would let that caller read (public, or the
\* caller on the access list, or the caller the author), and to an admin
\* every note.
C11_ListIsReadableNotes ==
  (resp.op = "listNotes" /\ resp.arg = NoSearch) =>
    /\ resp.body = {n \in DOMAIN notes : ~ReadAccessDenied(resp.caller, notes[n])}
    /\ Role(resp.caller) # "admin" =>
         \A n \in DOMAIN notes :
           n \in resp.body <=>
             (notes[n].isPublic \/ InAccessList(resp.caller, notes[n])
                \/ notes[n].author = resp.caller)
    /\ Role(resp.caller) = "admin" => resp.body = DOMAIN notes

\* A student listed a restricted note that the student wrote.
C11_Witness ==
  /\ resp.op = "listNotes" /\ resp.arg = NoSearch
  /\ Role(resp.caller) # "admin"
  /\ \E n \in resp.body :
       /\ ~notes[n].isPublic
       /\ ~InAccessList(resp.caller, notes[n])
       /\ notes[n].author = resp.caller

\* C12: add-comment on an existing note is gated by canRead.  A caller who
\* is admin, author, on the access list, or facing a public note gets exactly
\* one comment (author = caller, content = the supplied content) appended at
\* the end, the earlier comments unchanged and in order; any other caller
\* gets Forbidden and the comment sequence stays as it was.
C12_AddCommentGatedByCanRead ==
  [][ (resp'.op = "addComment" /\ resp'.id \in DOMAIN notes) =>
        LET old == notes[resp'.id].comments
            new == notes'[resp'.id].comments
        IN  IF CanRead(resp'.caller, notes[resp'.id])
              THEN /\ Category(resp'.status) = "Success"
                   /\ Len(new) = Len(old) + 1
                   /\ SubSeq(new, 1, Len(old)) = old
                   /\ new[Len(new)].user = resp'.caller
                   /\ new[Len(new)].content = resp'.arg
              ELSE /\ Category(resp'.status) = "Forbidden"
                   /\ new = old
    ]_vars

\* A student on the access list of a restricted note written by someone else
\* added a second comment to it.
C12_Witness ==
  /\ resp.op = "addComment" /\ resp.status = 200
  /\ resp.id \in DOMAIN notes
  /\ Role(resp.caller) # "admin"
  /\ ~notes[resp.id].isPublic
  /\ notes[resp.id].author # resp.caller
  /\ InAccessList(resp.caller, notes[resp.id])
  /\ Len(notes[resp.id].comments) = 2
  /\ notes[resp.id].comments[2].user = resp.caller

\* The moderation predicate as the specification states it.
CanModerate(c, ownerRef) == Role(c) = "admin" \/ c = ownerRef

\* C14: update-comment and delete-comment of an existing comment succeed iff
\* the caller is admin or the comment's author; any other caller gets
\* Forbidden and the comments stay as they were.  A successful update changes
\* the content (and update stamp) of that comment only; a successful delete
\* removes that comment only; the others keep their content and order.
C14_CommentModeration ==
  [][ ( /\ resp'.op \in {"updateComment", "deleteComment"}
        /\ resp'.id \in DOMAIN notes
        /\ \E i \in 1..Len(notes[resp'.id].comments) :
             notes[resp'.id].comments[i]._id =
               (IF resp'.op = "updateComment" THEN resp'.arg.commentId ELSE resp'.arg) )
      =>
        LET old == notes[resp'.id].comments
            new == notes'[resp'.id].comments
            cid == IF resp'.op = "updateComment" THEN resp'.arg.commentId ELSE resp'.arg
            i   == CHOOSE j \in 1..Len(old) : old[j]._id = cid
        IN  IF ~CanModerate(resp'.caller, old[i].user)
              THEN Category(resp'.status) = "Forbidden" /\ new = old
              ELSE /\ Category(resp'.status) = "Success"
                   /\ resp'.op = "updateComment" =>
                        /\ Len(new) = Len(old)
                        /\ \A j \in 1..Len(old) : j # i => new[j] = old[j]
                        /\ new[i]._id = old[i]._id /\ new[i].user = old[i].user
                        /\ new[i].content = resp'.arg.content
                   /\ resp'.op = "deleteComment" =>
                        /\ Len(new) = Len(old) - 1
                        /\ \A j \in 1..Len(new) :
                             new[j] = IF j < i THEN old[j] ELSE old[j + 1]
    ]_vars

\* A student deleted the first of two comments, their own, and the other
\* student's comment remained.
C14_Witness ==
  /\ resp.op = "deleteComment" /\ resp.status = 200
  /\ Role(resp.caller) # "admin"
  /\ resp.id \in DOMAIN notes
  /\ Len(notes[resp.id].comments) = 1
  /\ notes[resp.id].comments[1].user # resp.caller
  /\ notes[resp.id].comments[1]._id # resp.arg

\* C13: the comment a successful add-comment request returns is the comment
\* that request appended (same subdocument, author = the caller, content =
\* the supplied content), however other add-comment and delete-comment
\* requests on the note interleave with it.
C13_ReturnedCommentIsOwn ==
  [][ (resp'.op = "addComment" /\ resp'.status = 200) =>
        \A r \in DOMAIN inflight \ DOMAIN inflight' :
          /\ "_id" \in DOMAIN resp'.body
          /\ resp'.body._id = inflight[r].push._id
          /\ resp'.body.user = resp'.caller
          /\ resp'.body.content = resp'.arg
    ]_vars

\* C15: a non-admin caller never receives an inactive assignment.  The
\* assignment list answers such a caller with exactly the active assignments
\* and read-one of an inactive assignment answers Forbidden; an admin is
\* listed every assignment and reads active and inactive ones alike.
C15_InactiveHiddenFromNonAdmin ==
  /\ resp.op = "listAssignments" =>
       IF Role(resp.caller) = "admin"
         THEN resp.body = DOMAIN assignments
         ELSE resp.body = {x \in DOMAIN assignments : assignments[x].isActive}
  /\ (resp.op = "getAssignment" /\ resp.id \in DOMAIN assignments) =>
       IF Role(resp.caller) # "admin" /\ ~assignments[resp.id].isActive
         THEN Category(resp.status) = "Forbidden"
         ELSE Category(resp.status) = "Success" /\ resp.body = assignments[resp.id]

\* A student listed the assignments while one was active and one inactive,
\* and got the active one only.
C15_Witness ==
  /\ resp.op = "listAssignments"
  /\ Role(resp.caller) # "admin"
  /\ resp.body # {}
  /\ \E x \in DOMAIN assignments : ~assignments[x].isActive

\* C16: while its assignment exists, a stored submission keeps its student,
\* submission time, artifact locator, display name, artifact kind and
\* comment through every operation, and its grade and feedback change only in
\* a successful grade operation by an admin.
C16_SubmissionImmutableButGrade ==
  [][ \A id \in DOMAIN assignments \cap DOMAIN assignments' :
        LET old == assignments[id].submissions
            new == assignments'[id].submissions
        IN  /\ Len(new) >= Len(old)
            /\ \A i \in 1..Len(old) :
                 /\ new[i]._id = old[i]._id
                 /\ new[i].student = old[i].student
                 /\ new[i].submittedAt = old[i].submittedAt
                 /\ new[i].fileUrl = old[i].fileUrl
                 /\ new[i].fileName = old[i].fileName
                 /\ new[i].fileType = old[i].fileType
                 /\ new[i].comments = old[i].comments
                 /\ (new[i].grade # old[i].grade \/ new[i].feedback # old[i].feedback) =>
                      /\ resp'.op = "grade" /\ resp'.status = 200
                      /\ Role(resp'.caller) = "admin"
                      /\ resp'.arg.submissionId = old[i]._id
    ]_vars

\* The admin graded the first of two submissions after the assignment had
\* been updated; the second is still ungraded.
C16_Witness ==
  /\ resp.op = "grade" /\ resp.status = 200
  /\ resp.id \in DOMAIN assignments
  /\ Len(assignments[resp.id].submissions) = 2
  /\ assignments[resp.id].submissions[1].grade # NoGrade
  /\ assignments[resp.id].submissions[2].grade = NoGrade
  /\ ~assignments[resp.id].isActive

C18_DeleteOnlyAdminOrAuthor ==
  [][ /\ \A n \in DOMAIN notes \ DOMAIN notes' :
           /\ resp'.op = "deleteNote" /\ resp'.id = n
           /\ Role(resp'.caller) = "admin" \/ notes[n].author = resp'.caller
      /\ resp'.op = "deleteNote" =>
           IF resp'.id \notin DOMAIN notes
             THEN Category(resp'.status) = "NotFound" /\ notes' = notes
             ELSE IF Role(resp'.caller) = "admin" \/ notes[resp'.id].author = resp'.caller
               THEN Category(resp'.status) = "Success" /\ resp'.id \notin DOMAIN notes'
               ELSE Category(resp'.status) = "Forbidden" /\ notes' = notes
    ]_vars

\* A student holding 'edit' access to a note asked to delete it and was
\* refused; the note is still there.
C18_Witness ==
  /\ resp.op = "deleteNote" /\ resp.status = 403
  /\ resp.id \in DOMAIN notes
  /\ HasEditGrant(resp.caller, notes[resp.id])

\* C19: note creation by an admin that names a course which does not exist
\* fails with NotFound and stores no note; a successful creation stores one
\* note whose author is the caller, which is public unless the request set
\* the flag (an explicit false is kept), whose tags and access list are empty
\* unless supplied, whose view count is zero and which has no comments.
C19_CreateNoteChecksCourseAndDefaults ==
  [][ (resp'.op = "createNote" /\ Role(resp'.caller) = "admin") =>
        LET b == resp'.arg
        IN  IF "course" \in DOMAIN b /\ b.course \notin DOMAIN courses
              THEN Category(resp'.status) = "NotFound" /\ notes' = notes
              ELSE /\ Category(resp'.status) = "Success"
                   /\ DOMAIN notes' = DOMAIN notes \cup {resp'.id}
                   /\ resp'.id \notin DOMAIN notes
                   /\ \A n \in DOMAIN notes : notes'[n] = notes[n]
                   /\ LET note == notes'[resp'.id]
                      IN  /\ note.author = resp'.caller
                          /\ note.isPublic = IF "isPublic" \in DOMAIN b THEN b.isPublic ELSE TRUE
                          /\ note.tags = IF "tags" \in DOMAIN b THEN b.tags ELSE <<>>
                          /\ note.accessList =
                               IF "accessList" \in DOMAIN b THEN b.accessList ELSE <<>>
                          /\ note.viewCount = 0
                          /\ note.comments = <<>>
    ]_vars

\* A note was created for a course that exists.
C19_Witness ==
  /\ resp.op = "createNote" /\ resp.status = 201
  /\ "course" \in DOMAIN resp.arg
  /\ resp.arg.course \in DOMAIN courses
  /\ resp.id \in DOMAIN notes
  /\ notes[resp.id].course = resp.arg.course

\* C20: the view-counter update of read-one is a read, an increment and a
\* write that are not one atomic step: the save of a request stores the value
\* that request loaded plus one, whatever the counter holds by then, so two
\* reads that both load before either saves raise the counter by 1 only.
C20_ViewCountWriteIsLoadedPlusOne ==
  [][ \A r \in DOMAIN inflight :
        ( /\ inflight[r].op = "getNote" /\ inflight[r].pc = "save"
          /\ r \in DOMAIN inflight' /\ inflight'[r].pc = "respond" )
        => notes'[inflight[r].id].viewCount = inflight[r].note.viewCount
    ]_vars

\* Two read-one requests loaded the fresh note, both saved, one has answered
\* and the other is about to: the counter stands at 1.
C20_Witness ==
  /\ resp.op = "getNote" /\ resp.status = 200
  /\ resp.body.viewCount = 1
  /\ resp.id \in DOMAIN notes
  /\ notes[resp.id].viewCount = 1
  /\ \E r \in DOMAIN inflight :
       /\ inflight[r].id = resp.id
       /\ inflight[r].pc = "respond"
       /\ inflight[r].note.viewCount = 1

\* The access type of the last entry the access list holds for c.
LastAccessType(c, note) ==
  LET last == CHOOSE i \in 1..Len(note.accessList) :
                /\ note.accessList[i].user = c
                /\ \A j \in (i + 1)..Len(note.accessList) : note.accessList[j].user # c
  IN  note.accessList[last].accessType

\* C21: when the access list holds several entries for one user, the entry
\* that decides whether that user (neither admin nor author) may update the
\* note is the last one for that user: the update goes through iff the last
\* entry's access type is 'edit'.
C21_LastMatchDecidesUpdate ==
  [][ ( /\ resp'.op = "updateNote"
        /\ resp'.id \in DOMAIN notes
        /\ Role(resp'.caller) # "admin"
        /\ notes[resp'.id].author # resp'.caller
        /\ InAccessList(resp'.caller, notes[resp'.id]) )
      => ( (resp'.status = 200) <=>
             (LastAccessType(resp'.caller, notes[resp'.id]) = "edit") )
    ]_vars

\* C22: every note, comment, assignment, submission, grade and enrollment
\* operation ends in one outcome of the taxonomy, and when that outcome is
\* NotFound, Forbidden or Validation the stored notes (view counters and
\* comments included), assignments (submissions included) and courses
\* (rosters included) are exactly what they were before the request.
C22_FailureLeavesStoreUnchanged ==
  [][ /\ resp'.status \in {200, 201, 400, 403, 404, 500}
      /\ Category(resp'.status) \in {"NotFound", "Forbidden", "Validation"} =>
           /\ notes' = notes
           /\ assignments' = assignments
           /\ courses' = courses
    ]_vars

\* A second submit by a student was refused as a duplicate while a viewed,
\* commented note, the student's submission and a full course were stored.
C22_Witness ==
  /\ resp.op = "submit" /\ resp.status = 400
  /\ resp.msg = "You have already submitted this assignment"
  /\ \E n \in DOMAIN notes : notes[n].viewCount > 0 /\ Len(notes[n].comments) > 0
  /\ \E a \in DOMAIN assignments : Len(assignments[a].submissions) > 0
  /\ \E k \in DOMAIN courses : Len(courses[k].students) > 0

\* C23: 'edit' access does not escalate.  No update, comment or read made by
\* a caller who is neither admin nor the note's author changes the note's
\* author reference, so such a caller never comes to delete the note.
C23_EditDoesNotEscalate ==
  [][ ( /\ resp'.op \in {"updateNote", "addComment", "getNote"}
        /\ resp'.id \in DOMAIN notes
        /\ resp'.id \in DOMAIN notes'
        /\ Role(resp'.caller) # "admin"
        /\ notes[resp'.id].author # resp'.caller )
      => notes'[resp'.id].author = notes[resp'.id].author
    ]_vars

====
